---- MODULE Spec2Model ----
(***************************************************************************)
(* redis-go-suo: a lease lock on one store key (package redissuo) and the  *)
(* retrying runner that executes work under it (package redissuorun).      *)
(*                                                                         *)
(* Time is a global clock counted in ticks; TicksPerMs ticks make one      *)
(* millisecond, so a time.Duration may hold a fraction of a millisecond.   *)
(* Every store round trip is three or four steps of the calling process    *)
(* (send, script evaluation in the store, reply, finish) and the clock may *)
(* advance between any two of them.                                        *)
(***************************************************************************)
EXTENDS Integers, FiniteSets, Sequences, TLC

\* ---------------------------------------------------------------- bounds
TicksPerMs == 2
MaxTime == 3
MaxUUID == 2
MaxFaults == 1
MaxCode == 4

Procs == {"p1", "p2"}
Names == {"A", "B"}
\* the callers whose ctx may be cancelled
Cancellable == {"p1"}
\* the callers whose round trips the transport may fail under the runner
Faulty == {"p1"}
\* leases of half a millisecond, one millisecond and one and a half
Leases == {TicksPerMs \div 2, TicksPerMs, TicksPerMs + TicksPerMs \div 2}
\* the leases whose whole milliseconds the store's PX option accepts
StoreLeases == {d \in Leases : d \div TicksPerMs >= 1}

VARIABLES
    now,          \* the clock (time.Now), in ticks
    suo,          \* per process: Suo.key, the name of the lock primitive it uses
    ttl,          \* Suo.ttl, the lease of every lock primitive of the run
    rds,          \* the store client given to NewSuo: "nil" or "client"
    built,        \* what NewSuo did: "none" (not called yet), "suo" or "panic"
    store,        \* the store: name -> [val, exp], val = 0 when the key is absent
    uuid,         \* number of tokens utils.NewUUID has produced
    faults,       \* number of round trips the transport has failed
    call,         \* per process: the store round trip in flight
    ret,          \* per process: what its last lock-primitive call returned
    xin,          \* per process: the *Xin it holds (message.xin in the runner)
    sessionUUID,  \* per process: the token it generated last
    released,     \* per process: Release has been invoked on the token of xin
    run,          \* per process: the callback given to SuoLockXqt, by what it returns
    rpc,          \* per process: position inside SuoLockXqt
    ctxDead,      \* per process: the caller's ctx is cancelled (ctx.Err() != nil)
    duration,     \* per process: time.Until(message.xin.Expire()) as evaluated
    workCtx,      \* per process: deadline of the context handed to run
    works,        \* per process: number of times run was invoked
    workOut,      \* per process: how the callback ended (nil, err, panic)
    deadAtCall,   \* per process: ctx was already cancelled when SuoLockXqt was called
    relCtx,       \* per process: context the last releaseOnce used
    result        \* per process: what SuoLockXqt returned

vars == <<now, suo, ttl, rds, built, store, uuid, faults, call, ret, xin, sessionUUID, released,
          run, rpc, ctxDead, duration, workCtx, works, workOut, deadAtCall, relCtx, result>>

primVars == <<call, ret, xin, released>>
runVars == <<run, rpc, ctxDead, duration, workCtx, works, workOut, deadAtCall, relCtx, result>>

\* ---------------------------------------------------------------- values
KeyAbsent == [val |-> 0, exp |-> 0]
NoXin == [key |-> "", sessionUUID |-> 0, expire |-> 0]
NoCall == [st |-> "idle", op |-> "none", key |-> "", value |-> 0, startTime |-> 0,
           resp |-> [kind |-> "none", str |-> "", num |-> 0], now2 |-> 0]
NoRet == [op |-> "none", kind |-> "none"]

ReplyNone == [kind |-> "none", str |-> "", num |-> 0]
ReplyErr == [kind |-> "err", str |-> "", num |-> 0]      \* err != nil, not redis.Nil
ReplyNil == [kind |-> "nil", str |-> "", num |-> 0]      \* err is redis.Nil
ReplyNull == [kind |-> "null", str |-> "", num |-> 0]    \* err == nil, resp == nil
ReplyStr(s) == [kind |-> "str", str |-> s, num |-> 0]
ReplyInt(n) == [kind |-> "int", str |-> "", num |-> n]

\* ---------------------------------------------------------------- redissuo
\* time.Duration.Milliseconds: integer division, the fraction is dropped
\* (towards zero)
Milliseconds(d) == IF d >= 0 THEN d \div TicksPerMs ELSE -((-d) \div TicksPerMs)

\* NewSuo: must.Nice panics on the zero value of each argument
NewSuo(r, key, d) == IF r = "nil" \/ key = "" \/ d = 0 THEN "panic" ELSE "suo"

commandAcquire_ShortRenewal(s, k, value, px, t) ==
    IF px <= 0
    THEN [store |-> s, resp |-> ReplyErr]
    ELSE IF s[k].val = value
    THEN [store |-> [s EXCEPT ![k] = [val |-> value, exp |-> t + (px * TicksPerMs) \div 2]],
          resp |-> ReplyStr("OK")]
    ELSE IF s[k].val = 0
    THEN [store |-> [s EXCEPT ![k] = [val |-> value, exp |-> t + px * TicksPerMs]],
          resp |-> ReplyStr("OK")]
    ELSE [store |-> s, resp |-> ReplyNil]

commandAcquire_NoNX(s, k, value, px, t) ==
    IF px <= 0
    THEN [store |-> s, resp |-> ReplyErr]
    ELSE [store |-> [s EXCEPT ![k] = [val |-> value, exp |-> t + px * TicksPerMs]],
          resp |-> ReplyStr("OK")]

\* the acquire script, evaluated atomically by the store at instant t;
\* SET rejects an expire time that is not positive and the script fails
commandAcquire(s, k, value, px, t) ==
    IF px <= 0
    THEN [store |-> s, resp |-> ReplyErr]
    ELSE IF s[k].val = value
    THEN [store |-> [s EXCEPT ![k] = [val |-> value, exp |-> t + px * TicksPerMs]],
          resp |-> ReplyStr("OK")]
    ELSE IF s[k].val = 0
    THEN [store |-> [s EXCEPT ![k] = [val |-> value, exp |-> t + px * TicksPerMs]],
          resp |-> ReplyStr("OK")]
    ELSE [store |-> s, resp |-> ReplyNil]

commandRelease_NoOwnerCheck(s, k, value) ==
    IF s[k].val = 0
    THEN [store |-> s, resp |-> ReplyInt(2)]
    ELSE [store |-> [s EXCEPT ![k] = KeyAbsent], resp |-> ReplyInt(1)]

commandRelease_KeepsKey(s, k, value) ==
    IF s[k].val = 0
    THEN [store |-> s, resp |-> ReplyInt(2)]
    ELSE IF s[k].val = value
    THEN [store |-> s, resp |-> ReplyInt(1)]
    ELSE [store |-> s, resp |-> ReplyInt(3)]

commandRelease_DeletesOnMismatch(s, k, value) ==
    IF s[k].val = 0
    THEN [store |-> s, resp |-> ReplyInt(2)]
    ELSE IF s[k].val = value
    THEN [store |-> [s EXCEPT ![k] = KeyAbsent], resp |-> ReplyInt(1)]
    ELSE [store |-> [s EXCEPT ![k] = KeyAbsent], resp |-> ReplyInt(3)]

commandRelease_NeverDeletes(s, k, value) ==
    IF s[k].val = 0
    THEN [store |-> s, resp |-> ReplyInt(2)]
    ELSE [store |-> s, resp |-> ReplyInt(3)]

\* the release script
commandRelease(s, k, value) ==
    IF s[k].val = 0
    THEN [store |-> s, resp |-> ReplyInt(2)]
    ELSE IF s[k].val = value
    THEN [store |-> [s EXCEPT ![k] = KeyAbsent], resp |-> ReplyInt(1)]
    ELSE [store |-> s, resp |-> ReplyInt(3)]

acquire_SwallowsError(resp) ==
    IF resp.kind \in {"nil", "err", "null"} THEN "no"
    ELSE IF resp.kind # "str" THEN "no"
    ELSE IF resp.str # "OK" THEN "no"
    ELSE "ok"

acquire_NilIsError(resp) ==
    IF resp.kind \in {"nil", "err"} THEN "err"
    ELSE IF resp.kind = "str" /\ resp.str = "OK" THEN "ok"
    ELSE "no"

\* (*Suo).acquire after the round trip: "ok", "no" (false, nil) or "err"
acquire(resp) ==
    IF resp.kind = "nil" THEN "no"
    ELSE IF resp.kind = "err" THEN "err"
    ELSE IF resp.kind = "null" THEN "no"
    ELSE IF resp.kind # "str" THEN "no"
    ELSE IF resp.str # "OK" THEN "no"
    ELSE "ok"

release_UnknownIsTrue(resp) ==
    IF resp.kind \in {"err", "nil"} THEN "err"
    ELSE IF resp.kind = "null" THEN "false"
    ELSE IF resp.kind # "int" THEN "false"
    ELSE IF resp.num = 3 THEN "false"
    ELSE "true"

release_GoneIsFailure(resp) ==
    IF resp.kind \in {"err", "nil"} THEN "err"
    ELSE IF resp.kind = "int" /\ resp.num \in {0, 1} THEN "true"
    ELSE "false"

\* (*Suo).release after the round trip: "true", "false" or "err"
release(resp) ==
    IF resp.kind \in {"err", "nil"} THEN "err"
    ELSE IF resp.kind = "null" THEN "false"
    ELSE IF resp.kind # "int" THEN "false"
    ELSE IF resp.num \in {0, 1, 2} THEN "true"
    ELSE "false"

\* the conservative expiry of AcquireLockWithSession: now.Add(ttl - timeSpent)
Expire(now2, startTime, since) == now2 + (ttl - (since - startTime))

Idle(p) == call[p].st = "idle"

SendAcquire_OneKey(p, op, k, value) ==
    /\ call' = [call EXCEPT ![p] = [NoCall EXCEPT !.st = "acq_sent", !.op = op, !.key = "A",
                                    !.value = value, !.startTime = now]]

\* AcquireLockWithSession up to the request leaving: startTime := time.Now()
SendAcquire(p, op, k, value) ==
    /\ call' = [call EXCEPT ![p] = [NoCall EXCEPT !.st = "acq_sent", !.op = op, !.key = k,
                                    !.value = value, !.startTime = now]]

\* Release up to the request leaving
SendRelease(p, k, value) ==
    /\ call' = [call EXCEPT ![p] = [NoCall EXCEPT !.st = "rel_sent", !.op = "Release", !.key = k,
                                    !.value = value]]

StoreEval_Fifo(p) ==
    /\ call[p].st \in {"acq_sent", "rel_sent"}
    /\ call[p].st = "acq_sent" =>
          \A q \in Procs \ {p} :
              ~(rpc[q] \in {"acq_check", "acq_call", "acq_sleep"}
                  /\ sessionUUID[q] < sessionUUID[p])
    /\ LET out == IF call[p].st = "acq_sent"
                  THEN commandAcquire(store, call[p].key, call[p].value,
                                      Milliseconds(ttl), now)
                  ELSE commandRelease(store, call[p].key, call[p].value)
       IN /\ store' = out.store
          /\ call' = [call EXCEPT ![p].resp = out.resp,
                                  ![p].st = IF call[p].st = "acq_sent"
                                            THEN "acq_replied" ELSE "rel_replied"]
    /\ UNCHANGED <<now, suo, ttl, rds, built, uuid, faults, ret, xin, sessionUUID, released, runVars>>

\* the store evaluates the script of the request of p and replies
StoreEval(p) ==
    /\ call[p].st \in {"acq_sent", "rel_sent"}
    /\ LET out == IF call[p].st = "acq_sent"
                  THEN commandAcquire(store, call[p].key, call[p].value,
                                      Milliseconds(ttl), now)
                  ELSE commandRelease(store, call[p].key, call[p].value)
       IN /\ store' = out.store
          /\ call' = [call EXCEPT ![p].resp = out.resp,
                                  ![p].st = IF call[p].st = "acq_sent"
                                            THEN "acq_replied" ELSE "rel_replied"]
    /\ UNCHANGED <<now, suo, ttl, rds, built, uuid, faults, ret, xin, sessionUUID, released, runVars>>

\* the request never reaches the store: the client reports an error
RequestLost(p) ==
    /\ call[p].st \in {"acq_sent", "rel_sent"}
    /\ faults < MaxFaults
    /\ faults' = faults + 1
    /\ call' = [call EXCEPT ![p].resp = ReplyErr,
                            ![p].st = IF call[p].st = "acq_sent"
                                      THEN "acq_replied" ELSE "rel_replied"]
    /\ UNCHANGED <<now, suo, ttl, rds, built, store, uuid, ret, xin, sessionUUID, released, runVars>>

\* the script ran but its reply never reaches the client
ReplyLost(p) ==
    /\ call[p].st \in {"acq_replied", "rel_replied"}
    /\ call[p].resp.kind # "err"
    /\ faults < MaxFaults
    /\ faults' = faults + 1
    /\ call' = [call EXCEPT ![p].resp = ReplyErr]
    /\ UNCHANGED <<now, suo, ttl, rds, built, store, uuid, ret, xin, sessionUUID, released, runVars>>

\* the reply shapes a store, or something answering in its place, can send
Replies ==
    {ReplyNull, ReplyStr("OK"), ReplyStr("QUEUED")} \cup {ReplyInt(n) : n \in -1..MaxCode}

\* the request of p is answered with a reply of an arbitrary shape
OddReply(p) ==
    /\ call[p].st \in {"acq_sent", "rel_sent"}
    /\ \E r \in Replies :
          call' = [call EXCEPT ![p].resp = r,
                               ![p].st = IF call[p].st = "acq_sent"
                                         THEN "acq_replied" ELSE "rel_replied"]
    /\ UNCHANGED <<now, suo, ttl, rds, built, store, uuid, faults, ret, xin, sessionUUID, released, runVars>>

\* acquire returned: errors and refusals end AcquireLockWithSession at once,
\* success reads the clock (now := time.Now())
AcquireReply(p) ==
    /\ call[p].st = "acq_replied"
    /\ LET got == acquire(call[p].resp)
       IN IF got = "ok"
          THEN /\ call' = [call EXCEPT ![p].st = "acq_timed", ![p].now2 = now]
               /\ UNCHANGED ret
          ELSE /\ call' = [call EXCEPT ![p] = NoCall]
               /\ ret' = [ret EXCEPT ![p] = [op |-> call[p].op,
                                             kind |-> IF got = "err" THEN "err" ELSE "nil"]]
    /\ UNCHANGED <<now, suo, ttl, rds, built, store, uuid, faults, xin, sessionUUID, released, runVars>>

\* success, second half: timeSpent := time.Since(startTime) and the new Xin
AcquireFinish(p) ==
    /\ call[p].st = "acq_timed"
    /\ xin' = [xin EXCEPT ![p] = [key |-> call[p].key, sessionUUID |-> call[p].value,
                                  expire |-> Expire(call[p].now2, call[p].startTime, now)]]
    /\ ret' = [ret EXCEPT ![p] = [op |-> call[p].op, kind |-> "xin"]]
    /\ released' = [released EXCEPT ![p] = FALSE]
    /\ call' = [call EXCEPT ![p] = NoCall]
    /\ UNCHANGED <<now, suo, ttl, rds, built, store, uuid, faults, sessionUUID, runVars>>

ReleaseReply_ClearsSession(p) ==
    /\ call[p].st = "rel_replied"
    /\ ret' = [ret EXCEPT ![p] = [op |-> "Release",
                                  kind |-> release(call[p].resp)]]
    /\ xin' = [xin EXCEPT ![p] = [xin[p] EXCEPT !.expire = 0]]
    /\ call' = [call EXCEPT ![p] = NoCall]
    /\ UNCHANGED <<now, suo, ttl, rds, built, store, uuid, faults, sessionUUID, released, runVars>>

\* release returned
ReleaseReply(p) ==
    /\ call[p].st = "rel_replied"
    /\ ret' = [ret EXCEPT ![p] = [op |-> "Release",
                                  kind |-> release(call[p].resp)]]
    /\ call' = [call EXCEPT ![p] = NoCall]
    /\ UNCHANGED <<now, suo, ttl, rds, built, store, uuid, faults, xin, sessionUUID, released, runVars>>

\* ------------------------------------------------ callers of the primitive
Acquire_ReusesToken(p) ==
    /\ rpc[p] = "idle" /\ Idle(p)
    /\ xin[p] = NoXin \/ released[p]
    /\ uuid < MaxUUID
    /\ uuid' = uuid + 1
    /\ sessionUUID' = [sessionUUID EXCEPT ![p] = IF sessionUUID[p] # 0 THEN sessionUUID[p]
                                                 ELSE uuid + 1]
    /\ SendAcquire(p, "Acquire", suo[p], IF sessionUUID[p] # 0 THEN sessionUUID[p] ELSE uuid + 1)
    /\ ret' = [ret EXCEPT ![p] = NoRet]
    /\ xin' = [xin EXCEPT ![p] = NoXin]
    /\ released' = [released EXCEPT ![p] = FALSE]
    /\ UNCHANGED <<now, suo, ttl, rds, built, store, faults, runVars>>

\* Acquire: a fresh token from utils.NewUUID, then AcquireLockWithSession
Acquire(p) ==
    /\ rpc[p] = "idle" /\ Idle(p)
    /\ xin[p] = NoXin \/ released[p]
    /\ uuid < MaxUUID
    /\ uuid' = uuid + 1
    /\ sessionUUID' = [sessionUUID EXCEPT ![p] = uuid + 1]
    /\ SendAcquire(p, "Acquire", suo[p], uuid + 1)
    /\ ret' = [ret EXCEPT ![p] = NoRet]
    /\ xin' = [xin EXCEPT ![p] = NoXin]
    /\ released' = [released EXCEPT ![p] = FALSE]
    /\ UNCHANGED <<now, suo, ttl, rds, built, store, faults, runVars>>

\* AcquireLockWithSession called with the token the caller generated earlier:
\* after a refusal or an error, or again after it released the session
AcquireLockWithSession(p) ==
    /\ rpc[p] = "idle" /\ Idle(p)
    /\ sessionUUID[p] # 0
    /\ xin[p] = NoXin \/ released[p]
    /\ SendAcquire(p, "AcquireLockWithSession", suo[p], sessionUUID[p])
    /\ ret' = [ret EXCEPT ![p] = NoRet]
    /\ xin' = [xin EXCEPT ![p] = NoXin]
    /\ released' = [released EXCEPT ![p] = FALSE]
    /\ UNCHANGED <<now, suo, ttl, rds, built, store, uuid, faults, sessionUUID, runVars>>

AcquireAgainExtendLock_FreshToken(p) ==
    /\ rpc[p] = "idle" /\ Idle(p)
    /\ xin[p] # NoXin
    /\ IF xin[p].key # suo[p]
       THEN /\ ret' = [ret EXCEPT ![p] = [op |-> "AcquireAgainExtendLock", kind |-> "panic"]]
            /\ UNCHANGED call
       ELSE /\ SendAcquire(p, "AcquireAgainExtendLock", suo[p], xin[p].sessionUUID + MaxUUID)
            /\ ret' = [ret EXCEPT ![p] = NoRet]
    /\ UNCHANGED <<now, suo, ttl, rds, built, store, uuid, faults, xin, sessionUUID, released, runVars>>

\* AcquireAgainExtendLock: must.Equals(xin.key, o.key), then the same token
AcquireAgainExtendLock(p) ==
    /\ rpc[p] = "idle" /\ Idle(p)
    /\ xin[p] # NoXin
    /\ IF xin[p].key # suo[p]
       THEN /\ ret' = [ret EXCEPT ![p] = [op |-> "AcquireAgainExtendLock", kind |-> "panic"]]
            /\ UNCHANGED call
       ELSE /\ SendAcquire(p, "AcquireAgainExtendLock", suo[p], xin[p].sessionUUID)
            /\ ret' = [ret EXCEPT ![p] = NoRet]
    /\ UNCHANGED <<now, suo, ttl, rds, built, store, uuid, faults, xin, sessionUUID, released, runVars>>

Release_Unchecked(p) ==
    /\ rpc[p] = "idle" /\ Idle(p)
    /\ xin[p] # NoXin
    /\ SendRelease(p, suo[p], xin[p].sessionUUID)
    /\ released' = [released EXCEPT ![p] = TRUE]
    /\ ret' = [ret EXCEPT ![p] = NoRet]
    /\ UNCHANGED <<now, suo, ttl, rds, built, store, uuid, faults, xin, sessionUUID, runVars>>

\* Release: must.Equals(xin.key, o.key), then the release script with xin's token
Release(p) ==
    /\ rpc[p] = "idle" /\ Idle(p)
    /\ xin[p] # NoXin
    /\ IF xin[p].key # suo[p]
       THEN /\ ret' = [ret EXCEPT ![p] = [op |-> "Release", kind |-> "panic"]]
            /\ UNCHANGED <<call, released>>
       ELSE /\ SendRelease(p, suo[p], xin[p].sessionUUID)
            /\ released' = [released EXCEPT ![p] = TRUE]
            /\ ret' = [ret EXCEPT ![p] = NoRet]
    /\ UNCHANGED <<now, suo, ttl, rds, built, store, uuid, faults, xin, sessionUUID, runVars>>

\* the caller turns to the lock primitive of another name, keeping its session
UseOther(p) ==
    /\ rpc[p] = "idle" /\ Idle(p)
    /\ \E k \in Names \ {suo[p]} : suo' = [suo EXCEPT ![p] = k]
    /\ UNCHANGED <<now, ttl, rds, built, store, uuid, faults, primVars, sessionUUID, runVars>>

\* NewSuo is called with the arguments drawn in the initial state
NewSuoCall(p) ==
    /\ built = "none" /\ rpc[p] = "off"
    /\ built' = NewSuo(rds, suo[p], ttl)
    /\ rpc' = [rpc EXCEPT ![p] = IF NewSuo(rds, suo[p], ttl) = "suo" THEN "idle" ELSE "off"]
    /\ UNCHANGED <<now, suo, ttl, rds, store, uuid, faults, primVars, sessionUUID,
                   run, ctxDead, duration, workCtx, works, workOut, deadAtCall, relCtx, result>>

\* ------------------------------------------------------------- redissuorun
\* what a callback may do when it ends: return nil, return an error, panic
Outcomes(f) == IF f = "any" THEN {"nil", "err", "panic"} ELSE {f}

\* SuoLockXqt is called: one token for the whole invocation
SuoLockXqt(p) ==
    /\ rpc[p] = "idle" /\ Idle(p)
    /\ uuid < MaxUUID
    /\ uuid' = uuid + 1
    /\ sessionUUID' = [sessionUUID EXCEPT ![p] = uuid + 1]
    /\ rpc' = [rpc EXCEPT ![p] = "acq_check"]
    /\ deadAtCall' = [deadAtCall EXCEPT ![p] = ctxDead[p]]
    /\ UNCHANGED <<now, suo, ttl, rds, built, store, faults, primVars,
                   run, workOut, ctxDead, duration, workCtx, works, relCtx, result>>

retryingAcquire_IgnoresCtx(p) ==
    /\ rpc[p] = "acq_check"
    /\ SendAcquire(p, "AcquireLockWithSession", suo[p], sessionUUID[p])
    /\ ret' = [ret EXCEPT ![p] = NoRet]
    /\ rpc' = [rpc EXCEPT ![p] = "acq_call"]
    /\ UNCHANGED <<now, suo, ttl, rds, built, store, uuid, faults, xin, sessionUUID, released,
                   run, workOut, deadAtCall, ctxDead, duration, workCtx, works, relCtx, result>>

retryingAcquire_TokenPerAttempt(p) ==
    /\ rpc[p] = "acq_check"
    /\ IF ctxDead[p]
       THEN /\ rpc' = [rpc EXCEPT ![p] = "cancelled"]
            /\ result' = [result EXCEPT ![p] = "ctxerr"]
            /\ UNCHANGED <<call, ret, sessionUUID>>
       ELSE /\ sessionUUID' = [sessionUUID EXCEPT ![p] = sessionUUID[p] + MaxUUID]
            /\ SendAcquire(p, "AcquireLockWithSession", suo[p], sessionUUID[p] + MaxUUID)
            /\ ret' = [ret EXCEPT ![p] = NoRet]
            /\ rpc' = [rpc EXCEPT ![p] = "acq_call"]
            /\ UNCHANGED result
    /\ UNCHANGED <<now, suo, ttl, rds, built, store, uuid, faults, xin, released,
                   run, workOut, deadAtCall, ctxDead, duration, workCtx, works, relCtx>>

\* retryingAcquire, top of the loop: give up on a dead context, else one attempt
retryingAcquire(p) ==
    /\ rpc[p] = "acq_check"
    /\ IF ctxDead[p]
       THEN /\ rpc' = [rpc EXCEPT ![p] = "cancelled"]
            /\ result' = [result EXCEPT ![p] = "ctxerr"]
            /\ UNCHANGED <<call, ret>>
       ELSE /\ SendAcquire(p, "AcquireLockWithSession", suo[p], sessionUUID[p])
            /\ ret' = [ret EXCEPT ![p] = NoRet]
            /\ rpc' = [rpc EXCEPT ![p] = "acq_call"]
            /\ UNCHANGED result
    /\ UNCHANGED <<now, suo, ttl, rds, built, store, uuid, faults, xin, sessionUUID, released,
                   run, workOut, deadAtCall, ctxDead, duration, workCtx, works, relCtx>>

acquireOnce_SurfacesError(p) ==
    /\ rpc[p] = "acq_call" /\ Idle(p) /\ ret[p].kind # "none"
    /\ rpc' = [rpc EXCEPT ![p] = IF ret[p].kind = "xin" THEN "until"
                                 ELSE IF ret[p].kind = "err" THEN "cancelled"
                                 ELSE "acq_sleep"]
    /\ result' = [result EXCEPT ![p] = IF ret[p].kind = "err" THEN "err" ELSE result[p]]
    /\ UNCHANGED <<now, suo, ttl, rds, built, store, uuid, faults, primVars, sessionUUID,
                   run, workOut, deadAtCall, ctxDead, duration, workCtx, works, relCtx>>

acquireOnce_ProceedsOnNil(p) ==
    /\ rpc[p] = "acq_call" /\ Idle(p) /\ ret[p].kind # "none"
    /\ rpc' = [rpc EXCEPT ![p] = IF ret[p].kind \in {"xin", "nil"} THEN "until" ELSE "acq_sleep"]
    /\ UNCHANGED <<now, suo, ttl, rds, built, store, uuid, faults, primVars, sessionUUID,
                   run, workOut, deadAtCall, ctxDead, duration, workCtx, works, relCtx, result>>

\* acquireOnce returned: leave the loop with the session, or back off
acquireOnce(p) ==
    /\ rpc[p] = "acq_call" /\ Idle(p) /\ ret[p].kind # "none"
    /\ rpc' = [rpc EXCEPT ![p] = IF ret[p].kind = "xin" THEN "until" ELSE "acq_sleep"]
    /\ UNCHANGED <<now, suo, ttl, rds, built, store, uuid, faults, primVars, sessionUUID,
                   run, workOut, deadAtCall, ctxDead, duration, workCtx, works, relCtx, result>>

AcquireSleep_SkipsCheck(p) ==
    /\ rpc[p] = "acq_sleep"
    /\ SendAcquire(p, "AcquireLockWithSession", suo[p], sessionUUID[p])
    /\ ret' = [ret EXCEPT ![p] = NoRet]
    /\ rpc' = [rpc EXCEPT ![p] = "acq_call"]
    /\ UNCHANGED <<now, suo, ttl, rds, built, store, uuid, faults, xin, sessionUUID, released,
                   run, workOut, deadAtCall, ctxDead, duration, workCtx, works, relCtx, result>>

\* time.Sleep(duration) of retryingAcquire is over
AcquireSleep(p) ==
    /\ rpc[p] = "acq_sleep"
    /\ rpc' = [rpc EXCEPT ![p] = "acq_check"]
    /\ UNCHANGED <<now, suo, ttl, rds, built, store, uuid, faults, primVars, sessionUUID,
                   run, workOut, deadAtCall, ctxDead, duration, workCtx, works, relCtx, result>>

\* the argument time.Until(message.xin.Expire()) of execRun is evaluated
EvalUntil(p) ==
    /\ rpc[p] = "until"
    /\ duration' = [duration EXCEPT ![p] = xin[p].expire - now]
    /\ rpc' = [rpc EXCEPT ![p] = "exec"]
    /\ UNCHANGED <<now, suo, ttl, rds, built, store, uuid, faults, primVars, sessionUUID,
                   run, workOut, deadAtCall, ctxDead, workCtx, works, relCtx, result>>

execRun_SkipsExpired(p) ==
    /\ rpc[p] = "exec"
    /\ workCtx' = [workCtx EXCEPT ![p] = now + duration[p]]
    /\ IF duration[p] <= 0 \/ ctxDead[p]
       THEN /\ rpc' = [rpc EXCEPT ![p] = "rel_once"]
            /\ workOut' = [workOut EXCEPT ![p] = "err"]
            /\ result' = [result EXCEPT ![p] = "err"]
            /\ UNCHANGED works
       ELSE /\ works' = [works EXCEPT ![p] = works[p] + 1]
            /\ rpc' = [rpc EXCEPT ![p] = "working"]
            /\ UNCHANGED <<workOut, result>>
    /\ UNCHANGED <<now, suo, ttl, rds, built, store, uuid, faults, primVars, sessionUUID,
                   run, deadAtCall, ctxDead, duration, relCtx>>

\* execRun: context.WithTimeout(ctx, duration), then safeRun invokes the callback
execRun(p) ==
    /\ rpc[p] = "exec"
    /\ workCtx' = [workCtx EXCEPT ![p] = now + duration[p]]
    /\ works' = [works EXCEPT ![p] = works[p] + 1]
    /\ rpc' = [rpc EXCEPT ![p] = "working"]
    /\ UNCHANGED <<now, suo, ttl, rds, built, store, uuid, faults, primVars, sessionUUID,
                   run, workOut, deadAtCall, ctxDead, duration, relCtx, result>>

safeRunErr_NoRecover(out) == IF out = "panic" THEN "crash" ELSE out

\* what safeRun returns: the callback's own result, or the error made of the
\* recovered panic value
safeRunErr(out) == IF out = "panic" THEN "recovered" ELSE out

\* safeRun: the callback ends; a panic is recovered into an error
safeRun(p) ==
    /\ rpc[p] = "working"
    /\ \E out \in Outcomes(run[p]) :
          /\ workOut' = [workOut EXCEPT ![p] = out]
          /\ result' = [result EXCEPT ![p] = safeRunErr(out)]
    /\ rpc' = [rpc EXCEPT ![p] = "rel_once"]
    /\ UNCHANGED <<now, suo, ttl, rds, built, store, uuid, faults, primVars, sessionUUID,
                   run, deadAtCall, ctxDead, duration, workCtx, works, relCtx>>

safeCtx_AlwaysCancel(dead) == "cancel"

\* safeCtx: an independent timeout context when the caller's is dead
safeCtx(dead) == IF dead THEN "timeout" ELSE "cancel"

\* releaseOnce: safeCtx, then Release with the session of this invocation
releaseOnce(p) ==
    /\ rpc[p] = "rel_once"
    /\ relCtx' = [relCtx EXCEPT ![p] = safeCtx(ctxDead[p])]
    /\ SendRelease(p, suo[p], xin[p].sessionUUID)
    /\ released' = [released EXCEPT ![p] = TRUE]
    /\ ret' = [ret EXCEPT ![p] = NoRet]
    /\ rpc' = [rpc EXCEPT ![p] = "rel_call"]
    /\ UNCHANGED <<now, suo, ttl, rds, built, store, uuid, faults, xin, sessionUUID,
                   run, workOut, deadAtCall, ctxDead, duration, workCtx, works, result>>

retryingRelease_StopsOnFalse(p) ==
    /\ rpc[p] = "rel_call" /\ Idle(p) /\ ret[p].kind # "none"
    /\ rpc' = [rpc EXCEPT ![p] = IF ret[p].kind \in {"true", "false"} THEN "done" ELSE "rel_sleep"]
    /\ UNCHANGED <<now, suo, ttl, rds, built, store, uuid, faults, primVars, sessionUUID,
                   run, workOut, deadAtCall, ctxDead, duration, workCtx, works, relCtx, result>>

retryingRelease_GivesUp(p) ==
    /\ rpc[p] = "rel_call" /\ Idle(p) /\ ret[p].kind # "none"
    /\ rpc' = [rpc EXCEPT ![p] = "done"]
    /\ UNCHANGED <<now, suo, ttl, rds, built, store, uuid, faults, primVars, sessionUUID,
                   run, workOut, deadAtCall, ctxDead, duration, workCtx, works, relCtx, result>>

retryingRelease_SurfacesError(p) ==
    /\ rpc[p] = "rel_call" /\ Idle(p) /\ ret[p].kind # "none"
    /\ rpc' = [rpc EXCEPT ![p] = IF ret[p].kind = "true" THEN "done" ELSE "rel_sleep"]
    /\ result' = [result EXCEPT ![p] = IF ret[p].kind = "err" THEN "err" ELSE result[p]]
    /\ UNCHANGED <<now, suo, ttl, rds, built, store, uuid, faults, primVars, sessionUUID,
                   run, workOut, deadAtCall, ctxDead, duration, workCtx, works, relCtx>>

\* retryingRelease: stop on true, back off on false and on error
retryingRelease(p) ==
    /\ rpc[p] = "rel_call" /\ Idle(p) /\ ret[p].kind # "none"
    /\ rpc' = [rpc EXCEPT ![p] = IF ret[p].kind = "true" THEN "done" ELSE "rel_sleep"]
    /\ UNCHANGED <<now, suo, ttl, rds, built, store, uuid, faults, primVars, sessionUUID,
                   run, workOut, deadAtCall, ctxDead, duration, workCtx, works, relCtx, result>>

\* time.Sleep(duration) of retryingRelease is over
ReleaseSleep(p) ==
    /\ rpc[p] = "rel_sleep"
    /\ rpc' = [rpc EXCEPT ![p] = "rel_once"]
    /\ UNCHANGED <<now, suo, ttl, rds, built, store, uuid, faults, primVars, sessionUUID,
                   run, workOut, deadAtCall, ctxDead, duration, workCtx, works, relCtx, result>>

\* the caller's ctx is cancelled or its deadline passes
Cancel(p) ==
    /\ rpc[p] \notin {"off", "done", "cancelled"}
    /\ ~ctxDead[p]
    /\ p \in Cancellable
    /\ ctxDead' = [ctxDead EXCEPT ![p] = TRUE]
    /\ UNCHANGED <<now, suo, ttl, rds, built, store, uuid, faults, primVars, sessionUUID,
                   run, rpc, duration, workCtx, works, workOut, deadAtCall, relCtx, result>>

\* the context of the round trip in flight is dead: the client gives up and
\* reports the context's error, whether or not the script has run
CtxAbort(p) ==
    /\ ctxDead[p]
    /\ \/ rpc[p] = "acq_call" /\ call[p].st \in {"acq_sent", "acq_replied"}
       \/ rpc[p] = "rel_call" /\ call[p].st \in {"rel_sent", "rel_replied"}
                              /\ relCtx[p] = "cancel"
    /\ call[p].resp.kind # "err"
    /\ call' = [call EXCEPT ![p].resp = ReplyErr,
                            ![p].st = IF call[p].op = "Release"
                                      THEN "rel_replied" ELSE "acq_replied"]
    /\ UNCHANGED <<now, suo, ttl, rds, built, store, uuid, faults, ret, xin, sessionUUID, released, runVars>>

\* the clock advances one tick; the store drops the keys whose expiry is reached
Tick ==
    /\ now < MaxTime
    /\ now' = now + 1
    /\ store' = [k \in Names |->
                    IF store[k].val # 0 /\ store[k].exp <= now + 1
                    THEN KeyAbsent ELSE store[k]]
    /\ UNCHANGED <<suo, ttl, rds, built, uuid, faults, call, ret, xin, sessionUUID, released, runVars>>

\* ---------------------------------------------------------- specifications
InitOf(keys, leases, running, callbacks) ==
    /\ now = 0
    /\ suo = keys
    /\ ttl \in leases
    /\ rds = "client"
    /\ built = "suo"
    /\ store = [k \in Names |-> KeyAbsent]
    /\ uuid = 0
    /\ faults = 0
    /\ call = [p \in Procs |-> NoCall]
    /\ ret = [p \in Procs |-> NoRet]
    /\ xin = [p \in Procs |-> NoXin]
    /\ sessionUUID = [p \in Procs |-> 0]
    /\ released = [p \in Procs |-> FALSE]
    /\ run = callbacks
    /\ rpc = [p \in Procs |-> IF p \in running THEN "idle" ELSE "off"]
    /\ ctxDead = [p \in Procs |-> FALSE]
    /\ duration = [p \in Procs |-> 0]
    /\ workCtx = [p \in Procs |-> 0]
    /\ works = [p \in Procs |-> 0]
    /\ workOut = [p \in Procs |-> "none"]
    /\ deadAtCall = [p \in Procs |-> FALSE]
    /\ relCtx = [p \in Procs |-> "none"]
    /\ result = [p \in Procs |-> "none"]

InitWith(keys, leases, running, callback) ==
    InitOf(keys, leases, running, [p \in Procs |-> callback])

\* two callers share one lock primitive (NewSuo(rds, "A", ttl))
Init == InitWith([p \in Procs |-> "A"], StoreLeases, Procs, "any")

\* one caller alone, over a transport that may fail
InitSolo == InitWith([p \in Procs |-> "A"], Leases, {"p1"}, "any")

\* two callers, each with a lock primitive of its own name
InitNames == InitWith([p \in Procs |-> IF p = "p1" THEN "A" ELSE "B"], StoreLeases, Procs, "any")

Next ==
    \/ Tick
    \/ \E p \in Procs : StoreEval(p)
    \/ \E p \in Procs : AcquireReply(p)
    \/ \E p \in Procs : AcquireFinish(p)
    \/ \E p \in Procs : ReleaseReply(p)
    \/ \E p \in Procs : Acquire(p)
    \/ \E p \in Procs : AcquireLockWithSession(p)
    \/ \E p \in Procs : AcquireAgainExtendLock(p)
    \/ \E p \in Procs : Release(p)

NextFault ==
    \/ Next
    \/ \E p \in Procs : RequestLost(p)
    \/ \E p \in Procs : ReplyLost(p)

\* the leases a caller may hand to NewSuo: positive, zero and negative
NewLeases == Leases \cup {0} \cup {-d : d \in Leases}

\* nothing is constructed yet; the arguments of NewSuo are drawn freely
InitNew ==
    /\ now = 0
    /\ \E k \in {"", "A"} : suo = [p \in Procs |-> k]
    /\ ttl \in NewLeases
    /\ rds \in {"nil", "client"}
    /\ built = "none"
    /\ store = [k \in Names |-> KeyAbsent]
    /\ uuid = 0
    /\ faults = 0
    /\ call = [p \in Procs |-> NoCall]
    /\ ret = [p \in Procs |-> NoRet]
    /\ xin = [p \in Procs |-> NoXin]
    /\ sessionUUID = [p \in Procs |-> 0]
    /\ released = [p \in Procs |-> FALSE]
    /\ run = [p \in Procs |-> "any"]
    /\ rpc = [p \in Procs |-> "off"]
    /\ ctxDead = [p \in Procs |-> FALSE]
    /\ duration = [p \in Procs |-> 0]
    /\ workCtx = [p \in Procs |-> 0]
    /\ works = [p \in Procs |-> 0]
    /\ workOut = [p \in Procs |-> "none"]
    /\ deadAtCall = [p \in Procs |-> FALSE]
    /\ relCtx = [p \in Procs |-> "none"]
    /\ result = [p \in Procs |-> "none"]

NextNew ==
    \/ Next
    \/ \E p \in Procs : NewSuoCall(p)

NextMisuse ==
    \/ Next
    \/ \E p \in Procs : UseOther(p)

NextReply ==
    \/ Next
    \/ \E p \in Procs : OddReply(p)

\* the steps of one round trip, shared by every caller
RoundTrip(p) ==
    \/ StoreEval(p)
    \/ AcquireReply(p)
    \/ AcquireFinish(p)
    \/ ReleaseReply(p)

\* the steps of SuoLockXqt
Runner(p) ==
    \/ SuoLockXqt(p)
    \/ retryingAcquire(p)
    \/ acquireOnce(p)
    \/ AcquireSleep(p)
    \/ EvalUntil(p)
    \/ execRun(p)
    \/ safeRun(p)
    \/ releaseOnce(p)
    \/ retryingRelease(p)
    \/ ReleaseSleep(p)

NextRun ==
    \/ Tick
    \/ \E p \in Procs : RoundTrip(p)
    \/ \E p \in Procs : Runner(p)

\* two invocations on one lock of one millisecond: the callback of the first may
\* end in any way, the callback of the second returns nil
InitGuard ==
    InitOf([p \in Procs |-> "A"], {TicksPerMs}, Procs,
           [p \in Procs |-> IF p = "p1" THEN "any" ELSE "nil"])

\* one invocation alone on a lock of one millisecond, any callback
InitGuardSolo ==
    InitOf([p \in Procs |-> "A"], {TicksPerMs}, {"p1"}, [p \in Procs |-> "any"])

\* SuoLockXqt under cancellation of the caller's ctx, which also fails the round
\* trips made under it
NextGuard ==
    \/ NextRun
    \/ \E p \in Procs : Cancel(p)
    \/ \E p \in Procs : CtxAbort(p)

\* SuoLockXqt with contexts never cancelled, over a transport that may fail the
\* round trips of the first caller
NextRunFault ==
    \/ NextRun
    \/ \E p \in Faulty : RequestLost(p)
    \/ \E p \in Faulty : ReplyLost(p)

\* one SuoLockXqt invocation, and a second caller that keeps acquiring and
\* releasing the same lock through the primitive
InitBusy == InitWith([p \in Procs |-> "A"], {TicksPerMs}, Procs, "nil")

NextBusy ==
    \/ Tick
    \/ \E p \in Procs : RoundTrip(p)
    \/ Runner("p1")
    \/ Acquire("p2")
    \/ AcquireLockWithSession("p2")
    \/ Release("p2")

\* concurrent SuoLockXqt invocations on one lock, callbacks that return nil
InitRunNil == InitWith([p \in Procs |-> "A"], StoreLeases, Procs, "nil")

Spec == Init /\ [][Next]_vars
SpecRun == Init /\ [][NextRun]_vars
SpecRunFair ==
    /\ InitRunNil
    /\ [][NextRun]_vars
    /\ \A p \in Procs : WF_vars(RoundTrip(p)) /\ WF_vars(Runner(p))
SpecGuard == InitGuard /\ [][NextGuard]_vars
SpecRunFault == InitGuard /\ [][NextRunFault]_vars
SpecGuardFair ==
    /\ InitGuardSolo
    /\ [][NextGuard]_vars
    /\ \A p \in Procs : WF_vars(RoundTrip(p)) /\ WF_vars(Runner(p))
\* every round trip is answered, the runner keeps stepping, and the second caller
\* never sits on a session for ever without releasing it
SpecBusy ==
    /\ InitBusy
    /\ [][NextBusy]_vars
    /\ \A p \in Procs : WF_vars(RoundTrip(p))
    /\ WF_vars(Runner("p1"))
    /\ WF_vars(Release("p2"))
SpecSolo == InitSolo /\ [][NextFault]_vars
SpecNames == InitNames /\ [][Next]_vars
SpecReply == InitSolo /\ [][NextReply]_vars
SpecMisuse == InitSolo /\ [][NextMisuse]_vars
SpecNew == InitNew /\ [][NextNew]_vars

\* ------------------------------------------------------------------ claims
\* the process holds a session it has not released and whose deadline has not passed
Believes(p) == xin[p] # NoXin /\ ~released[p] /\ now < xin[p].expire

\* the acquire request of p is evaluated by the store in this step
EvalAcquire(p) == StoreEval(p) /\ call[p].st = "acq_sent"
\* the release request of p is evaluated by the store in this step
EvalRelease(p) == StoreEval(p) /\ call[p].st = "rel_sent"

\* C1: no two callers of one lock name hold, at the same instant, sessions with
\* different tokens that they have not released and whose deadlines have not passed
C1_MutualExclusion ==
    \A p, q \in Procs :
        (p # q /\ Believes(p) /\ Believes(q) /\ xin[p].key = xin[q].key)
            => xin[p].sessionUUID = xin[q].sessionUUID

\* the callback of p is executing and the context it was given has not expired
WorkingInTime(p) == rpc[p] = "working" /\ now < workCtx[p]

\* C2: the callbacks of two invocations on one lock never execute at the same
\* instant, each within the context it was given
C2_NoOverlap ==
    \A p, q \in Procs : (p # q /\ suo[p] = suo[q]) => ~(WorkingInTime(p) /\ WorkingInTime(q))

\* C3: every one of the concurrent invocations ends, returns nil and has invoked
\* its callback exactly once
C3_AllRunsComplete ==
    <>[](\A p \in Procs : rpc[p] = "done" /\ result[p] = "nil" /\ works[p] = 1)

\* C3 witness: both invocations have returned nil, each after one callback under
\* a session of its own
C3_Witness ==
    /\ \A p \in Procs : rpc[p] = "done" /\ result[p] = "nil" /\ works[p] = 1
    /\ xin["p1"].sessionUUID # xin["p2"].sessionUUID
    /\ xin["p1"] # NoXin /\ xin["p2"] # NoXin

\* C4: the acquire script decides atomically: a request that the store answers
\* without error is granted exactly when the key is absent (or already holds the
\* caller's token), and the grant writes the caller's token, so that of the
\* callers racing for an absent key the first evaluated wins and the others are refused
C4_AtomicAcquire ==
    [][\A p \in Procs :
          (EvalAcquire(p) /\ call'[p].resp.kind # "err") =>
             LET k == call[p].key
                 v == call[p].value
             IN IF store[k].val \in {0, v}
                THEN acquire(call'[p].resp) = "ok" /\ store'[k].val = v
                ELSE acquire(call'[p].resp) = "no" /\ store'[k].val = store[k].val]_vars

\* C4 witness: two acquire requests with different tokens were in flight together
\* for the absent key; one got OK and the other the not-modified reply
C4_Witness ==
    /\ call["p1"].st = "acq_replied" /\ call["p2"].st = "acq_replied"
    /\ call["p1"].key = call["p2"].key /\ call["p1"].value # call["p2"].value
    /\ call["p1"].startTime = call["p2"].startTime
    /\ acquire(call["p1"].resp) = "ok" /\ acquire(call["p2"].resp) = "no"

\* C5: an acquire evaluated while the key holds another token changes neither the
\* key's value nor its expiry, and the call returns (nil, nil)
C5_ContendedAcquire ==
    [][\A p \in Procs :
          /\ (EvalAcquire(p) /\ store[call[p].key].val \notin {0, call[p].value})
                => (store' = store /\ call'[p].resp = ReplyNil)
          /\ (AcquireReply(p) /\ call[p].resp = ReplyNil)
                => (ret'[p].kind = "nil" /\ xin'[p] = xin[p])]_vars

\* C5 witness: Acquire returned (nil, nil) while the other caller's token is in the key
C5_Witness ==
    /\ ret["p2"] = [op |-> "Acquire", kind |-> "nil"]
    /\ store["A"].val = xin["p1"].sessionUUID /\ store["A"].val # 0
    /\ ~released["p1"]

\* C6: with no contention and a store that answers, every Acquire returns a
\* session, every Release returns true and leaves the key absent
C6_AcquireReleaseRounds ==
    \A p \in Procs :
        faults = 0 =>
            /\ (ret[p].op = "Acquire" /\ ret[p].kind # "none") => ret[p].kind = "xin"
            /\ ret[p].op = "Release" => (ret[p].kind = "true" /\ store[suo[p]].val = 0)

\* C7: a script evaluated for one lock name leaves every other name's key unchanged,
\* and with a name of its own no caller is ever refused: every Acquire returns a
\* session and every Release returns true
C7_DistinctNames ==
    /\ [][\A p \in Procs : StoreEval(p) =>
             \A k \in Names \ {suo[p]} : store'[k] = store[k]]_vars
    /\ [](\A p \in Procs :
             /\ (ret[p].op = "Acquire" /\ ret[p].kind # "none") => ret[p].kind = "xin"
             /\ ret[p].op = "Release" => ret[p].kind = "true")

\* C7 witness: each caller acquired the lock of its own name while the other name
\* was held, and both releases returned true
C7_Witness ==
    /\ \A p \in Procs : ret[p] = [op |-> "Release", kind |-> "true"]
    /\ xin["p1"].key = "A" /\ xin["p2"].key = "B"
    /\ xin["p1"].expire > xin["p2"].expire - ttl
    /\ xin["p2"].expire > xin["p1"].expire - ttl

\* C8: the deadline of a session is never later than the instant the store expires
\* the key: while a caller holds an unreleased session whose deadline has not
\* passed, the key is present with its token and expires no earlier than the deadline
C8_ConservativeDeadline ==
    \A p \in Procs :
        Believes(p) =>
            /\ store[xin[p].key].val = xin[p].sessionUUID
            /\ xin[p].expire <= store[xin[p].key].exp

\* C9: a release evaluated while the key holds another token changes nothing in
\* the store, and Release returns (false, nil)
C9_ReleaseNotOwner ==
    [][\A p \in Procs :
          /\ (EvalRelease(p) /\ store[call[p].key].val \notin {0, call[p].value})
                => (store' = store /\ call'[p].resp = ReplyInt(3))
          /\ (ReleaseReply(p) /\ call[p].resp = ReplyInt(3)) => ret'[p].kind = "false"]_vars

\* C9 witness: Release returned false after the lease ran out and the other caller
\* took the lock, which it still holds
C9_Witness ==
    /\ ret["p1"] = [op |-> "Release", kind |-> "false"]
    /\ store["A"].val = xin["p2"].sessionUUID /\ store["A"].val # 0
    /\ xin["p1"].expire <= now

\* C10: a release evaluated while the key is absent changes nothing in the store,
\* and Release returns (true, nil)
C10_ReleaseAfterExpiry ==
    [][\A p \in Procs :
          /\ (EvalRelease(p) /\ store[call[p].key].val = 0)
                => (store' = store /\ call'[p].resp = ReplyInt(2))
          /\ (ReleaseReply(p) /\ call[p].resp = ReplyInt(2)) => ret'[p].kind = "true"]_vars

\* C10 witness: the release script of a session whose deadline has passed ran on
\* the key the store had expired, with no other caller involved
C10_Witness ==
    /\ call["p1"].st = "rel_replied" /\ call["p1"].resp = ReplyInt(2)
    /\ xin["p1"].sessionUUID = call["p1"].value
    /\ xin["p1"].expire <= now
    /\ sessionUUID["p2"] = 0

\* C11: AcquireAgainExtendLock that succeeds returns a session with the token of the
\* session it was given and a deadline not earlier than that session's deadline
C11_ExtendKeepsTokenAndDeadline ==
    [][\A p \in Procs :
          (AcquireFinish(p) /\ call[p].op = "AcquireAgainExtendLock") =>
              /\ xin'[p].sessionUUID = xin[p].sessionUUID
              /\ xin'[p].expire >= xin[p].expire]_vars

\* the invocation of p is in its release phase
Releasing(p) == rpc[p] \in {"rel_once", "rel_call", "rel_sleep"}

\* C12: a panic of the callback never leaves SuoLockXqt: the invocation returns the
\* error made of the recovered value, after a Release of its session returned true,
\* and the key no longer holds its token
C12_PanicContained ==
    \A p \in Procs :
        /\ result[p] # "crash"
        /\ (rpc[p] = "done" /\ workOut[p] = "panic") =>
              /\ result[p] = "recovered"
              /\ ret[p] = [op |-> "Release", kind |-> "true"]
              /\ store[suo[p]].val # xin[p].sessionUUID

\* C12 witness: the invocation whose callback panicked has returned and the key is absent
C12_Witness ==
    /\ rpc["p1"] = "done" /\ workOut["p1"] = "panic"
    /\ works["p1"] = 1 /\ store["A"].val = 0

\* C13: when the callback ends, in whatever way, the invocation enters its release
\* phase, and it returns only from there, after a Release call with the token of its
\* session returned true
C13_GuaranteedCleanup ==
    [][\A p \in Procs :
          /\ (rpc[p] = "working" /\ rpc'[p] # "working") => rpc'[p] = "rel_once"
          /\ (Releasing(p) /\ ~Releasing(p)') => rpc'[p] = "done"
          /\ (rpc[p] # "done" /\ rpc'[p] = "done") =>
                /\ rpc[p] = "rel_call"
                /\ ret[p] = [op |-> "Release", kind |-> "true"]
                /\ released[p] /\ xin[p].sessionUUID = sessionUUID[p]
                /\ works[p] = 1]_vars

\* C13 witness: the ctx died after the call, the callback ended with an error, and
\* the invocation returned after a Release under the timeout context returned true
C13_Witness ==
    /\ rpc["p1"] = "done" /\ workOut["p1"] = "err"
    /\ ctxDead["p1"] /\ relCtx["p1"] = "timeout" /\ ~deadAtCall["p1"]

\* C14: the value SuoLockXqt returns is nil exactly when the lock was acquired and the
\* callback returned nil; else it is the ctx error of the acquisition or the
\* callback's error or recovered panic; nothing in the release phase changes it
C14_ResultFromAcquireAndWork ==
    /\ [](\A p \in Procs :
             /\ rpc[p] = "cancelled" => (result[p] = "ctxerr" /\ works[p] = 0)
             /\ (Releasing(p) \/ rpc[p] = "done") =>
                   /\ works[p] = 1 /\ xin[p] # NoXin
                   /\ workOut[p] = "nil" => result[p] = "nil"
                   /\ workOut[p] = "err" => result[p] = "err"
                   /\ workOut[p] = "panic" => result[p] = "recovered"
             /\ result[p] = "nil" => (workOut[p] = "nil" /\ xin[p] # NoXin))
    /\ [][\A p \in Procs : Releasing(p) => result'[p] = result[p]]_vars

\* C14 witness: a Release of the release phase failed with an error and the
\* invocation still holds nil as its result
C14_Witness ==
    /\ rpc["p1"] = "rel_sleep" /\ ret["p1"] = [op |-> "Release", kind |-> "err"]
    /\ result["p1"] = "nil" /\ workOut["p1"] = "nil"

\* C15: an invocation called with a dead ctx never sends a request, never runs the
\* callback, never releases, and returns the ctx error; and whenever the top of the
\* acquisition loop sees a dead ctx the invocation ends there without a request
C15_DeadContextNoContact ==
    /\ [](\A p \in Procs :
             deadAtCall[p] =>
                /\ rpc[p] \in {"acq_check", "cancelled"}
                /\ call[p] = NoCall /\ ret[p] = NoRet /\ xin[p] = NoXin
                /\ works[p] = 0 /\ relCtx[p] = "none" /\ ~released[p]
                /\ rpc[p] = "cancelled" => result[p] = "ctxerr")
    /\ [][\A p \in Procs :
             /\ (rpc[p] = "acq_check" /\ ctxDead[p] /\ rpc'[p] # rpc[p]) =>
                   (rpc'[p] = "cancelled" /\ call'[p] = call[p] /\ result'[p] = "ctxerr")
             /\ rpc[p] = "cancelled" =>
                   (rpc'[p] = "cancelled" /\ call'[p] = call[p] /\ result'[p] = result[p])]_vars

\* C15 witness: an invocation called with a dead ctx has returned while the other
\* invocation holds the lock
C15_Witness ==
    /\ rpc["p1"] = "cancelled" /\ deadAtCall["p1"]
    /\ store["A"].val = sessionUUID["p2"] /\ sessionUUID["p2"] # 0

\* C16: every Release attempt started under a dead ctx uses the independent timeout
\* context, and an invocation in its release phase whose ctx is dead keeps
\* starting such attempts after every failure
C16_CleanupSurvivesCancel ==
    /\ [][\A p \in Procs :
             (rpc[p] = "rel_once" /\ rpc'[p] = "rel_call" /\ ctxDead[p]) =>
                 relCtx'[p] = "timeout"]_vars
    /\ \A p \in Procs :
          (ctxDead[p] /\ rpc[p] \in {"rel_once", "rel_sleep"}) ~>
              (rpc[p] = "rel_call" /\ relCtx[p] = "timeout")

\* C16 witness: the ctx died while the invocation held the lock, and a Release
\* attempt under the timeout context has deleted the key
C16_Witness ==
    /\ rpc["p1"] = "rel_call" /\ ctxDead["p1"] /\ ~deadAtCall["p1"]
    /\ relCtx["p1"] = "timeout"
    /\ call["p1"].st = "rel_replied" /\ call["p1"].resp = ReplyInt(1)

\* C17: a round trip that fails with an error makes Acquire, AcquireLockWithSession
\* and AcquireAgainExtendLock return an error and no session, and Release an error
C17_ErrorsPropagate ==
    [][\A p \in Procs :
          /\ (AcquireReply(p) /\ call[p].resp = ReplyErr) =>
                (ret'[p] = [op |-> call[p].op, kind |-> "err"] /\ xin'[p] = xin[p])
          /\ (ReleaseReply(p) /\ call[p].resp = ReplyErr) =>
                ret'[p] = [op |-> "Release", kind |-> "err"]]_vars

\* C17 witness: the round trip of an AcquireAgainExtendLock failed on the transport
\* and the call returned an error
C17_Witness ==
    /\ ret["p1"] = [op |-> "AcquireAgainExtendLock", kind |-> "err"]
    /\ faults = 1 /\ xin["p1"] # NoXin

C19_CrossLockMisuse ==
    [][\A p \in Procs :
          ((Release(p) \/ AcquireAgainExtendLock(p)) /\ xin[p].key # suo[p]) =>
              /\ ret'[p].kind = "panic"
              /\ store' = store /\ call' = call /\ xin' = xin /\ released' = released]_vars

\* C19 witness: Release on the primitive of the other name panicked while the
\* session's own key is still held
C19_Witness ==
    /\ ret["p1"] = [op |-> "Release", kind |-> "panic"]
    /\ xin["p1"].key # suo["p1"]
    /\ store[xin["p1"].key].val = xin["p1"].sessionUUID

\* C20: NewSuo returns a primitive exactly when the client is not nil, the name is
\* not empty and the lease is strictly positive, and panics otherwise
C20_ConstructorValidation ==
    built # "none" =>
        (built = "suo" <=> (rds # "nil" /\ suo["p1"] # "" /\ ttl > 0))

C22_WorkContextWithinDeadline ==
    \A p \in Procs : rpc[p] = "working" => workCtx[p] <= xin[p].expire

\* the phases of an invocation of SuoLockXqt
Acquiring(p) == rpc[p] \in {"acq_check", "acq_call", "acq_sleep"}
Holding(p) == rpc[p] \in {"until", "exec", "working"}

\* C23: an invocation moves ACQUIRING -> HOLDING -> RELEASING -> DONE or
\* ACQUIRING -> CANCELLED and in no other way; it leaves ACQUIRING only with a
\* session or on a dead ctx; the callback runs at most once and only with a session;
\* no Release is sent before the callback ended, none at all when it is cancelled
C23_StateMachine ==
    /\ [][\A p \in Procs :
             /\ Acquiring(p) => (Acquiring(p)' \/ Holding(p)' \/ rpc'[p] = "cancelled")
             /\ (Acquiring(p) /\ Holding(p)') =>
                   (ret[p].kind = "xin" /\ xin[p].sessionUUID = sessionUUID[p])
             /\ (Acquiring(p) /\ rpc'[p] = "cancelled") => (ctxDead[p] /\ rpc[p] = "acq_check")
             /\ Holding(p) => (Holding(p)' \/ rpc'[p] = "rel_once")
             /\ Releasing(p) => (Releasing(p)' \/ rpc'[p] = "done")
             /\ rpc[p] \in {"done", "cancelled"} => rpc'[p] = rpc[p]
             /\ works'[p] # works[p] => (works[p] = 0 /\ works'[p] = 1 /\ Holding(p))]_vars
    /\ [](\A p \in Procs :
             /\ (Acquiring(p) \/ rpc[p] = "cancelled") =>
                   (works[p] = 0 /\ ~released[p] /\ call[p].op # "Release")
             /\ Holding(p) => (workOut[p] = "none" /\ ~released[p] /\ call[p] = NoCall)
             /\ (Releasing(p) \/ rpc[p] = "done") => (works[p] = 1 /\ workOut[p] # "none"))

\* C23 witness: one invocation ended CANCELLED after contended attempts, the other
\* went through HOLDING and RELEASING to DONE
C23_Witness ==
    /\ rpc["p1"] = "cancelled" /\ ret["p1"].kind = "nil"
    /\ rpc["p2"] = "done" /\ works["p2"] = 1

\* C27: when the release script's reply makes Release return true the key is absent
\* right after the script, and the script run again with the same token on that
\* store replies with a code that is true again and changes nothing; a Release
\* evaluated on an absent key returns true and leaves the store as it is
C27_ReleaseIdempotent ==
    [][\A p \in Procs :
          EvalRelease(p) =>
             LET k == call[p].key
                 again == commandRelease(store', k, call[p].value)
             IN /\ release(call'[p].resp) = "true" =>
                      /\ store'[k] = KeyAbsent
                      /\ release(again.resp) = "true" /\ again.store = store'
                /\ store[k] = KeyAbsent =>
                      (release(call'[p].resp) = "true" /\ store' = store)]_vars

\* C27 witness: the second Release of a session is answered "already gone": the
\* session's deadline has not passed, nobody else ever asked for the lock, and the
\* key is absent because the first Release deleted it
C27_Witness ==
    /\ call["p1"].st = "rel_replied" /\ call["p1"].resp = ReplyInt(2)
    /\ call["p1"].value = xin["p1"].sessionUUID
    /\ now < xin["p1"].expire /\ ttl % TicksPerMs = 0
    /\ sessionUUID["p2"] = 0

\* C28: AcquireAgainExtendLock sends the session's token; evaluated while the key
\* holds another token it changes nothing and the call returns (nil, nil);
\* evaluated on the absent key it sets the key to the session's token again and the
\* call returns a session with that token
C28_ExtendNotOwner ==
    [][\A p \in Procs :
          /\ (EvalAcquire(p) /\ call[p].op = "AcquireAgainExtendLock") =>
                LET k == call[p].key
                IN /\ call[p].value = xin[p].sessionUUID
                   /\ store[k].val \notin {0, call[p].value} =>
                         (store' = store /\ acquire(call'[p].resp) = "no")
                   /\ store[k].val = 0 =>
                         /\ store'[k].val = xin[p].sessionUUID
                         /\ acquire(call'[p].resp) = "ok"
          /\ (AcquireReply(p) /\ call[p].op = "AcquireAgainExtendLock"
                /\ acquire(call[p].resp) = "no") =>
                (ret'[p] = [op |-> "AcquireAgainExtendLock", kind |-> "nil"] /\ xin'[p] = xin[p])
          /\ (AcquireFinish(p) /\ call[p].op = "AcquireAgainExtendLock") =>
                /\ ret'[p] = [op |-> "AcquireAgainExtendLock", kind |-> "xin"]
                /\ xin'[p].sessionUUID = xin[p].sessionUUID /\ xin'[p].key = xin[p].key]_vars

\* C28 witness: the session of the first caller ran out, the second caller took the
\* key, and the first caller's AcquireAgainExtendLock returned (nil, nil)
C28_Witness ==
    /\ ret["p1"] = [op |-> "AcquireAgainExtendLock", kind |-> "nil"]
    /\ xin["p1"] # NoXin /\ ~released["p1"] /\ xin["p1"].expire <= now
    /\ store["A"].val = sessionUUID["p2"] /\ sessionUUID["p2"] # xin["p1"].sessionUUID

\* C29: the acquire script of an AcquireAgainExtendLock that replies OK leaves the
\* key with an expiry instant that is not earlier than the one it had
C29_ExtendNeverShortens ==
    [][\A p \in Procs :
          (EvalAcquire(p) /\ call[p].op = "AcquireAgainExtendLock"
             /\ acquire(call'[p].resp) = "ok") =>
                /\ store'[call[p].key].exp >= store[call[p].key].exp
                /\ store'[call[p].key].exp > now]_vars

\* C29 witness: an AcquireAgainExtendLock was evaluated on the live key of its
\* session, before the session's deadline, and the key now expires later than that
\* deadline
C29_Witness ==
    /\ call["p1"].st = "acq_replied" /\ call["p1"].op = "AcquireAgainExtendLock"
    /\ call["p1"].resp = ReplyStr("OK") /\ ttl % TicksPerMs = 0
    /\ store["A"].val = xin["p1"].sessionUUID
    /\ store["A"].exp - ttl < xin["p1"].expire
    /\ store["A"].exp > xin["p1"].expire

\* C30: an invocation that returned the ctx error of its acquisition does not leave
\* the key holding its token
C30_CancelledLeavesNoLock ==
    \A p \in Procs :
        rpc[p] = "cancelled" => store[suo[p]].val # sessionUUID[p]

\* C24: the value of a key changes only from absent to the token of an acquire
\* script evaluated on the absent key, or from a token to absent, by the release
\* script called with exactly that token or by expiry; an acquire script evaluated
\* on a present key leaves its value as it is
C24_KeyMutations ==
    [][\A k \in Names :
          /\ store'[k].val # store[k].val =>
                \/ /\ store[k].val = 0
                   /\ \E p \in Procs : /\ EvalAcquire(p) /\ call[p].key = k
                                        /\ call[p].value = store'[k].val
                                        /\ acquire(call'[p].resp) = "ok"
                \/ /\ store'[k].val = 0
                   /\ \/ \E p \in Procs : /\ EvalRelease(p) /\ call[p].key = k
                                           /\ call[p].value = store[k].val
                                           /\ xin[p].sessionUUID = store[k].val
                      \/ now' = now + 1 /\ store[k].exp <= now'
          /\ \A p \in Procs :
                (EvalAcquire(p) /\ call[p].key = k /\ store[k].val # 0) =>
                    store'[k].val = store[k].val]_vars

\* C24 witness: the first caller released its live session and the key now holds
\* the token of the second caller
C24_Witness ==
    /\ ret["p1"] = [op |-> "Release", kind |-> "true"] /\ now < xin["p1"].expire
    /\ store["A"].val = sessionUUID["p2"] /\ sessionUUID["p2"] # sessionUUID["p1"]
    /\ xin["p2"].sessionUUID = sessionUUID["p2"]

\* C25: an acquire script called with the token the key holds replies OK, keeps the
\* value and sets the expiry to the instant of the evaluation plus the whole lease;
\* called with another token while the key is present it changes nothing
C25_ReentrantRenewal ==
    [][\A p \in Procs :
          EvalAcquire(p) =>
             LET k == call[p].key
             IN /\ store[k].val = call[p].value =>
                      /\ call'[p].resp = ReplyStr("OK")
                      /\ store'[k] = [val |-> call[p].value, exp |-> now + ttl]
                /\ store[k].val \notin {0, call[p].value} => store'[k] = store[k]]_vars

\* C26: an invocation keeps one token from its start to its end: every request it
\* sends, acquire or release, carries it, and so does its session; an attempt that
\* is evaluated while the key holds that token (an earlier attempt took effect and
\* its reply was lost) gets OK and keeps the key, and the invocation's attempts are
\* refused only when the key holds another token
C26_OneTokenPerRun ==
    /\ [](\A p \in Procs :
             rpc[p] # "idle" =>
                /\ call[p].op # "none" => call[p].value = sessionUUID[p]
                /\ xin[p] # NoXin => xin[p].sessionUUID = sessionUUID[p])
    /\ [][\A p \in Procs :
             /\ rpc[p] # "idle" => sessionUUID'[p] = sessionUUID[p]
             /\ (EvalAcquire(p) /\ store[call[p].key].val = sessionUUID[p]) =>
                   /\ call'[p].resp = ReplyStr("OK")
                   /\ store'[call[p].key].val = sessionUUID[p]
                   /\ store'[call[p].key].exp >= store[call[p].key].exp
             /\ (EvalAcquire(p) /\ call'[p].resp = ReplyNil) =>
                   store[call[p].key].val \notin {0, sessionUUID[p]}]_vars

\* C26 witness: a retry is in flight while the key holds the invocation's token
\* and the invocation has no session: an earlier attempt took effect, its reply
\* was lost
C26_Witness ==
    /\ rpc["p1"] = "acq_call" /\ call["p1"].st = "acq_sent"
    /\ xin["p1"] = NoXin /\ faults > 0
    /\ store[suo["p1"]].val = sessionUUID["p1"]
    /\ store[suo["p1"]].exp > now

\* C31: a Release of the release phase evaluated while the key holds another token
\* changes nothing in the store and returns false; after false the invocation
\* sleeps once and sends Release again with the same token; it leaves the release
\* phase only after a Release that returned true, and a Release returns true only
\* when its script found the key absent or holding the token of the invocation
C31_ReleaseAfterTakeover ==
    [][\A p \in Procs :
          /\ (EvalRelease(p) /\ Releasing(p)) =>
                LET k == call[p].key
                IN /\ call[p].value = sessionUUID[p]
                   /\ store[k].val \notin {0, call[p].value} =>
                         (store' = store /\ release(call'[p].resp) = "false")
                   /\ release(call'[p].resp) = "true" => store[k].val \in {0, call[p].value}
          /\ (rpc[p] = "rel_call" /\ rpc'[p] # "rel_call") =>
                IF ret[p] = [op |-> "Release", kind |-> "true"]
                THEN rpc'[p] = "done" ELSE rpc'[p] = "rel_sleep"
          /\ (rpc[p] = "rel_sleep" /\ rpc'[p] # "rel_sleep") => rpc'[p] = "rel_once"
          /\ (rpc[p] = "rel_once" /\ rpc'[p] # "rel_once") =>
                /\ rpc'[p] = "rel_call" /\ call'[p].st = "rel_sent"
                /\ call'[p].value = sessionUUID[p] /\ call'[p].key = suo[p]
          /\ (Releasing(p) /\ ~Releasing(p)') => ret[p] = [op |-> "Release", kind |-> "true"]]_vars

\* C31 witness: the session of the first invocation ran out while its callback was
\* running, the second invocation holds the key, and a Release of the first has
\* returned false and is followed by the sleep
C31_Witness ==
    /\ rpc["p1"] = "rel_sleep" /\ ret["p1"] = [op |-> "Release", kind |-> "false"]
    /\ xin["p1"].expire <= now
    /\ Holding("p2") /\ store["A"].val = sessionUUID["p2"]
    /\ sessionUUID["p2"] # sessionUUID["p1"]

\* C32: an invocation that has entered its release phase eventually returns
C32_RunTerminates ==
    \A p \in Procs : Releasing(p) ~> (rpc[p] = "done")

WorkCtxOver(p, t) == ctxDead[p] \/ workCtx[p] <= t

\* C34: after the acquisition loop returned with a session the callback is invoked
\* once, whatever the remaining time and the state of the caller's ctx: execRun
\* always starts it, with a context that is already over when the remaining time
\* is not positive or the caller's ctx is dead; the release phase follows the
\* callback and is reached only through it
C34_WorkInvokedOnce ==
    /\ [][\A p \in Procs :
             /\ (rpc[p] = "until" /\ rpc'[p] # "until") =>
                   (rpc'[p] = "exec" /\ duration'[p] = xin[p].expire - now)
             /\ (rpc[p] = "exec" /\ rpc'[p] # "exec") =>
                   /\ rpc'[p] = "working" /\ works[p] = 0 /\ works'[p] = 1
                   /\ (duration[p] <= 0 \/ ctxDead[p]) => WorkCtxOver(p, now)'
             /\ (rpc[p] = "working" /\ rpc'[p] # "working") =>
                   (rpc'[p] = "rel_once" /\ workOut'[p] # "none")
             /\ (~Releasing(p) /\ Releasing(p)') => rpc[p] = "working"
             /\ works'[p] # works[p] => rpc[p] = "exec"]_vars
    /\ [](\A p \in Procs : (Releasing(p) \/ rpc[p] = "done") => works[p] = 1)

\* C34 witness: the session's deadline had passed when the remaining time was
\* computed; the callback ran once all the same and the invocation released the
\* lock and returned
C34_Witness ==
    /\ rpc["p1"] = "done" /\ works["p1"] = 1 /\ workOut["p1"] # "none"
    /\ duration["p1"] < 0 /\ workCtx["p1"] < now
    /\ ret["p1"] = [op |-> "Release", kind |-> "true"]

TokensInUse ==
    {sessionUUID[q] : q \in Procs} \cup {xin[q].sessionUUID : q \in Procs}
        \cup {call[q].value : q \in Procs} \cup {store[k].val : k \in Names}

\* C37: the token of an Acquire call is one no caller, request or key has had; so
\* the script of an Acquire never finds its own token in the key: on a present key
\* it is refused and changes nothing; and the sessions two callers got from
\* Acquire have different tokens
C37_AcquireFreshToken ==
    /\ [][\A p \in Procs :
             /\ (Idle(p) /\ call'[p].op = "Acquire") =>
                   (call'[p].value \notin TokensInUse /\ call'[p].value > uuid)
             /\ (EvalAcquire(p) /\ call[p].op = "Acquire") =>
                   /\ store[call[p].key].val # call[p].value
                   /\ store[call[p].key].val # 0 =>
                         (store' = store /\ acquire(call'[p].resp) = "no")]_vars
    /\ [](\A p \in Procs : \A q \in Procs \ {p} :
             (ret[p] = [op |-> "Acquire", kind |-> "xin"]
                /\ ret[q] = [op |-> "Acquire", kind |-> "xin"]) =>
                   xin[p].sessionUUID # xin[q].sessionUUID)
    /\ [](uuid >= 0 /\ \A t \in TokensInUse : t <= uuid)

\* C37 witness: the first caller holds the session of an Acquire, and an Acquire of
\* the second caller on the same name, with another token, was refused
C37_Witness ==
    /\ ret["p1"] = [op |-> "Acquire", kind |-> "xin"] /\ now < xin["p1"].expire
    /\ store["A"].val = xin["p1"].sessionUUID
    /\ ret["p2"] = [op |-> "Acquire", kind |-> "nil"]
    /\ sessionUUID["p2"] \notin {0, xin["p1"].sessionUUID}
====
